---- MODULE Spec2Model ----
(***************************************************************************)
(* uid_reader (src/src/main.rs): decodes a Wii uid.sys file into a list of *)
(* entries and prints one line per entry, optionally naming each title     *)
(* from a title database text file.                                        *)
(*                                                                         *)
(* Representation.  TLC's integers are 32 bits wide, so a u64 is kept as   *)
(* four 16-bit limbs and a u32 as two 16-bit limbs, most significant limb  *)
(* first; a u16 and a u8 are plain integers.  A String is a sequence of    *)
(* characters, each character a one-character string ("DQUOTE", "BSLASH", *)
(* "BTICK" and "DEL" stand for the characters 0x22, 0x5C, 0x60 and 0x7F).  *)
(***************************************************************************)
EXTENDS Integers, Sequences, FiniteSets, TLC

VARIABLES
    pc,               \* position of main: "main", "print_entries", "for_entry", "exit", "panicked"
    uid_file,         \* the file named by args.uid_file: [status, bytes]
    decode_prefix,    \* args.decode_prefix
    title_db_path,    \* args.title_db: [some, status, lines]
    overflow_checks,  \* whether the build checks integer overflow (debug) or wraps (release)
    entries,          \* Option<Vec<Entry>> returned by get_entries_from_file: [some, v]
    title_db,         \* Option<HashMap<String, String>> of print_entries: [some, map]
    titledb_reads,    \* number of calls of read_titledb so far
    idx,              \* number of loop iterations of print_entries that have completed
    stdout,           \* the lines printed by println!, as the fields and the text of each
    stderr            \* the messages printed by eprintln! and by the panic hook

vars == <<pc, uid_file, decode_prefix, title_db_path, overflow_checks, entries,
          title_db, titledb_reads, idx, stdout, stderr>>

-----------------------------------------------------------------------------
(* Bounds of the model *)

\* longest uid file, in bytes
MaxBufLen == 24
\* most lines of a title database file
MaxDbLines == 2

-----------------------------------------------------------------------------
(* Program constants *)

\* bytes.chunks(12), &[u8; 12]
ChunkSize == 12
\* entry.uid - 4095
UidOffset == 4095
\* (entry.title_id as u32) < 255
IosLimit == 255
\* {: <19}
PrefixWidth == 19
\* (32..128).contains(&byte)
PrintableLo == 32
PrintableHi == 128
\* u8, u16 moduli
U8Mod == 256
U16Mod == 65536

-----------------------------------------------------------------------------
(* Characters and formatting *)

\* the characters of the bytes 32..127, in order
Ascii ==
  <<
     " ", "!", "DQUOTE", "#", "$", "%", "&", "'",
     "(", ")", "*", "+", ",", "-", ".", "/",
     "0", "1", "2", "3", "4", "5", "6", "7",
     "8", "9", ":", ";", "<", "=", ">", "?",
     "@", "A", "B", "C", "D", "E", "F", "G",
     "H", "I", "J", "K", "L", "M", "N", "O",
     "P", "Q", "R", "S", "T", "U", "V", "W",
     "X", "Y", "Z", "[", "BSLASH", "]", "^", "_",
     "BTICK", "a", "b", "c", "d", "e", "f", "g",
     "h", "i", "j", "k", "l", "m", "n", "o",
     "p", "q", "r", "s", "t", "u", "v", "w",
     "x", "y", "z", "{", "|", "}", "~", "DEL"
  >>

\* char::from(byte), for the bytes the program converts
CharFrom(byte) == Ascii[byte - 31]

HexDigits == <<"0", "1", "2", "3", "4", "5", "6", "7",
               "8", "9", "A", "B", "C", "D", "E", "F">>

DecDigits == <<"0", "1", "2", "3", "4", "5", "6", "7", "8", "9">>

\* "{}" of an unsigned integer
RECURSIVE FmtDec(_)
FmtDec(n) ==
    IF n < 10 THEN <<DecDigits[n + 1]>>
    ELSE FmtDec(n \div 10) \o <<DecDigits[(n % 10) + 1]>>

\* the four upper-case hex digits of one 16-bit limb
FmtHexLimb(w) ==
    << HexDigits[(w \div 4096) + 1], HexDigits[((w \div 256) % 16) + 1],
       HexDigits[((w \div 16) % 16) + 1], HexDigits[(w % 16) + 1] >>

\* "{:08X}" of a u32
FmtHex08(u) == FmtHexLimb(u[1]) \o FmtHexLimb(u[2])

\* "{: <19}": left-aligned, filled with spaces up to the width, never cut
PadLeftAligned(s, width) ==
    IF Len(s) >= width THEN s
    ELSE s \o [k \in 1..(width - Len(s)) |-> " "]

-----------------------------------------------------------------------------
(* Integers *)

\* u64::from_be_bytes of 8 bytes
U64FromBeBytes(b) == [k \in 1..4 |-> b[2 * k - 1] * U8Mod + b[2 * k]]

\* u16::from_be_bytes of 2 bytes
U16FromBeBytes(b) == b[1] * U8Mod + b[2]

\* (x >> 32) as u32, for a u64 x
Shr32AsU32(x) == <<x[1], x[2]>>

\* x as u32, for a u64 x
AsU32(x) == <<x[3], x[4]>>

\* u32::to_be_bytes
U32ToBeBytes(u) == <<u[1] \div U8Mod, u[1] % U8Mod, u[2] \div U8Mod, u[2] % U8Mod>>

\* u < n for a u32 u and a literal n below 2^16
U32Less(u, n) == u[1] = 0 /\ u[2] < n

\* the value of a u32 known to be below 2^16
U32Small(u) == u[2]

-----------------------------------------------------------------------------
(* Entry and get_entries_from_file *)

\* EntryFrom reading the uid from the two reserved bytes 8..9
EntryFrom_ReservedAsUid(value) ==
    [ title_id |-> U64FromBeBytes(SubSeq(value, 1, 8)),
      uid      |-> U16FromBeBytes(SubSeq(value, 9, 10)) ]

\* impl From<&[u8; 12]> for Entry
EntryFrom(value) ==
    [ title_id |-> U64FromBeBytes(SubSeq(value, 1, 8)),
      uid      |-> U16FromBeBytes(SubSeq(value, 11, 12)) ]

\* bytes.chunks(12): consecutive slices of 12 bytes, the last one shorter
\* when the length is not a multiple of 12
RECURSIVE Chunks(_, _)
Chunks(bytes, n) ==
    IF Len(bytes) = 0 THEN <<>>
    ELSE IF Len(bytes) <= n THEN <<bytes>>
    ELSE <<SubSeq(bytes, 1, n)>> \o Chunks(SubSeq(bytes, n + 1, Len(bytes)), n)

\* get_entries_from_file dropping a trailing partial chunk instead of
\* failing on it
get_entries_from_file_Truncating(file) ==
    IF file.status = "NotFound"
    THEN [ outcome |-> "None", v |-> <<>>, err |-> <<"File not found">> ]
    ELSE IF file.status # "Ok"
    THEN [ outcome |-> "None", v |-> <<>>, err |-> <<"Error opening file">> ]
    ELSE LET chunks == Chunks(file.bytes, ChunkSize)
             whole == SelectSeq(chunks, LAMBDA c : Len(c) = ChunkSize)
         IN  [ outcome |-> "Some",
               v |-> [k \in 1..Len(whole) |-> EntryFrom(whole[k])],
               err |-> <<>> ]

\* get_entries_from_file: what it returns ("Some", "None") or that it
\* panicked, the entries, and what it wrote to stderr
get_entries_from_file(file) ==
    IF file.status = "NotFound"
    THEN [ outcome |-> "None", v |-> <<>>, err |-> <<"File not found">> ]
    ELSE IF file.status # "Ok"
    THEN [ outcome |-> "None", v |-> <<>>, err |-> <<"Error opening file">> ]
    ELSE LET chunks == Chunks(file.bytes, ChunkSize) IN
         IF \E k \in 1..Len(chunks) : Len(chunks[k]) # ChunkSize
         THEN \* try_into(entry).unwrap() on a slice that is not 12 bytes long
              [ outcome |-> "panic", v |-> <<>>,
                err |-> <<"panicked: called Result::unwrap() on an Err value: TryFromSliceError">> ]
         ELSE [ outcome |-> "Some",
                v |-> [k \in 1..Len(chunks) |-> EntryFrom(chunks[k])],
                err |-> <<>> ]

-----------------------------------------------------------------------------
(* read_titledb *)

Separator == <<" ", "=", " ">>

\* position of the first occurrence of the separator in s, 0 when there is none
FindSeparator(s) ==
    LET hits == { i \in 1..(Len(s) - Len(Separator) + 1) :
                    SubSeq(s, i, i + Len(Separator) - 1) = Separator }
    IN  IF hits = {} THEN 0
        ELSE CHOOSE i \in hits : \A j \in hits : i <= j

\* line.split(" = "): the pieces between the non-overlapping occurrences of
\* the separator, found from left to right
RECURSIVE StrSplit(_)
StrSplit(s) ==
    LET i == FindSeparator(s) IN
    IF i = 0 THEN <<s>>
    ELSE <<SubSeq(s, 1, i - 1)>> \o StrSplit(SubSeq(s, i + Len(Separator), Len(s)))

\* result.insert(key, value)
MapInsert(map, key, value) ==
    [k \in (DOMAIN map) \cup {key} |-> IF k = key THEN value ELSE map[k]]

\* the for loop of read_titledb over the lines from position k on
RECURSIVE ReadLines(_, _, _)
ReadLines(lines, k, result) ==
    IF k > Len(lines) THEN [ ok |-> TRUE, map |-> result, err |-> "" ]
    ELSE LET entry == StrSplit(lines[k]) IN
         IF Len(entry) >= 2
         THEN ReadLines(lines, k + 1, MapInsert(result, entry[1], entry[2]))
         ELSE [ ok |-> FALSE, map |-> <<>>, err |-> "File format error" ]

\* read_titledb(path)
read_titledb(path) ==
    IF path.status # "Ok"
    THEN [ ok |-> FALSE, map |-> <<>>, err |-> "io error" ]
    ELSE ReadLines(path.lines, 1, <<>>)

-----------------------------------------------------------------------------
(* print_entries: the fields of one line *)

STR_SYSTEM_ESSENTIAL == <<"S", "Y", "S", "T", "E", "M", " ", "E", "S", "S", "E", "N", "T", "I", "A", "L">>
STR_VWII_ESSENTIAL == <<"v", "W", "I", "I", " ", "E", "S", "S", "E", "N", "T", "I", "A", "L">>
STR_DISC_BASED_GAME == <<"D", "I", "S", "C", "-", "B", "A", "S", "E", "D", " ", "G", "A", "M", "E">>
STR_DOWNLOADED_CHANNEL == <<"D", "O", "W", "N", "L", "O", "A", "D", "E", "D", " ", "C", "H", "A", "N", "N", "E", "L">>
STR_SYSTEM_CHANNEL == <<"S", "Y", "S", "T", "E", "M", " ", "C", "H", "A", "N", "N", "E", "L">>
STR_VWII_SYSTEM_CHANNEL == <<"v", "W", "I", "I", " ", "S", "Y", "S", "T", "E", "M", " ", "C", "H", "A", "N", "N", "E", "L">>
STR_GAME_CHANNEL == <<"G", "A", "M", "E", " ", "C", "H", "A", "N", "N", "E", "L">>
STR_GAME_DLC == <<"G", "A", "M", "E", " ", "D", "L", "C">>
STR_HIDDEN_CHANNEL == <<"H", "I", "D", "D", "E", "N", " ", "C", "H", "A", "N", "N", "E", "L">>
STR_VWII_HIDDEN == <<"v", "W", "I", "I", " ", "H", "I", "D", "D", "E", "N">>
STR_ERROR == <<"E", "r", "r", "o", "r">>

\* PrefixLabel with the arm of 0x00070002 giving the label of 0x00010002
PrefixLabel_CopiedArm(p) ==
    CASE p = <<0, 1>> -> STR_SYSTEM_ESSENTIAL
      [] p = <<0, 7>> -> STR_VWII_ESSENTIAL
      [] p = <<1, 0>> -> STR_DISC_BASED_GAME
      [] p = <<1, 1>> -> STR_DOWNLOADED_CHANNEL
      [] p = <<1, 2>> -> STR_SYSTEM_CHANNEL
      [] p = <<7, 2>> -> STR_SYSTEM_CHANNEL
      [] p = <<1, 4>> -> STR_GAME_CHANNEL
      [] p = <<1, 5>> -> STR_GAME_DLC
      [] p = <<1, 8>> -> STR_HIDDEN_CHANNEL
      [] p = <<7, 8>> -> STR_VWII_HIDDEN
      [] OTHER -> STR_ERROR

\* the match on (entry.title_id >> 32) as u32
PrefixLabel(p) ==
    CASE p = <<0, 1>> -> STR_SYSTEM_ESSENTIAL        \* 0x00000001
      [] p = <<0, 7>> -> STR_VWII_ESSENTIAL          \* 0x00000007
      [] p = <<1, 0>> -> STR_DISC_BASED_GAME         \* 0x00010000
      [] p = <<1, 1>> -> STR_DOWNLOADED_CHANNEL      \* 0x00010001
      [] p = <<1, 2>> -> STR_SYSTEM_CHANNEL          \* 0x00010002
      [] p = <<7, 2>> -> STR_VWII_SYSTEM_CHANNEL     \* 0x00070002
      [] p = <<1, 4>> -> STR_GAME_CHANNEL            \* 0x00010004
      [] p = <<1, 5>> -> STR_GAME_DLC                \* 0x00010005
      [] p = <<1, 8>> -> STR_HIDDEN_CHANNEL          \* 0x00010008
      [] p = <<7, 8>> -> STR_VWII_HIDDEN             \* 0x00070008
      [] OTHER -> STR_ERROR

\* let title_id_prefix = if pretty_prefix { match ... } else { "" }
title_id_prefix(entry, pretty_prefix) ==
    IF pretty_prefix THEN PrefixLabel(Shr32AsU32(entry.title_id)) ELSE <<>>

\* let title_id_prefix_raw = format!("{:08X}", (entry.title_id >> 32) as u32)
title_id_prefix_raw(entry) == FmtHex08(Shr32AsU32(entry.title_id))

\* make_gameid_string with the range (33..128): a space is printed as a dot
make_gameid_string_SpaceAsDot(gameid) ==
    LET bytes == U32ToBeBytes(gameid) IN
    [k \in 1..4 |-> IF bytes[k] > PrintableLo /\ bytes[k] < PrintableHi
                    THEN CharFrom(bytes[k])
                    ELSE "."]

\* make_gameid_string(gameid)
make_gameid_string(gameid) ==
    LET bytes == U32ToBeBytes(gameid) IN
    [k \in 1..4 |-> IF bytes[k] >= PrintableLo /\ bytes[k] < PrintableHi
                    THEN CharFrom(bytes[k])
                    ELSE "."]

\* let title_id_gameid_string = make_gameid_string(entry.title_id as u32)
title_id_gameid_string(entry) == make_gameid_string(AsU32(entry.title_id))

\* let title_id_gameid_raw = format!("{:08X}", (entry.title_id as u32))
title_id_gameid_raw(entry) == FmtHex08(AsU32(entry.title_id))

\* install_num subtracting 4096
install_num_OffByOne(entry, checks) ==
    IF entry.uid >= UidOffset + 1 THEN [ panic |-> FALSE, v |-> entry.uid - (UidOffset + 1) ]
    ELSE IF checks THEN [ panic |-> TRUE, v |-> 0 ]
    ELSE [ panic |-> FALSE, v |-> (entry.uid + U16Mod - (UidOffset + 1)) % U16Mod ]

\* let install_num = entry.uid - 4095, a subtraction of u16 values: below
\* 4095 it panics in a build with overflow checks and wraps otherwise
install_num(entry, checks) ==
    IF entry.uid >= UidOffset THEN [ panic |-> FALSE, v |-> entry.uid - UidOffset ]
    ELSE IF checks THEN [ panic |-> TRUE, v |-> 0 ]
    ELSE [ panic |-> FALSE, v |-> (entry.uid + U16Mod - UidOffset) % U16Mod ]

STR_DASH == <<" ", "-", " ">>
STR_IOS == <<" ", "-", " ", "I", "O", "S", " ">>
STR_UNKNOWN == <<" ", "-", " ", "?", "?", "?", "?">>

\* title_human_name testing the IOS range before the database
title_human_name_IosFirst(db, entry) ==
    IF db.some
    THEN IF U32Less(AsU32(entry.title_id), IosLimit)
         THEN STR_IOS \o FmtDec(U32Small(AsU32(entry.title_id)))
         ELSE IF title_id_gameid_string(entry) \in DOMAIN db.map
              THEN STR_DASH \o db.map[title_id_gameid_string(entry)]
              ELSE STR_UNKNOWN
    ELSE <<>>

\* let title_human_name = match &title_db { ... }
title_human_name(db, entry) ==
    IF db.some
    THEN IF title_id_gameid_string(entry) \in DOMAIN db.map
         THEN STR_DASH \o db.map[title_id_gameid_string(entry)]
         ELSE IF U32Less(AsU32(entry.title_id), IosLimit)
              THEN STR_IOS \o FmtDec(U32Small(AsU32(entry.title_id)))
              ELSE STR_UNKNOWN
    ELSE <<>>

\* the two println! of print_entries
println(entry, pretty_prefix, db, num) ==
    IF pretty_prefix
    THEN FmtDec(num) \o <<":", " ">>
            \o PadLeftAligned(title_id_prefix(entry, pretty_prefix), PrefixWidth)
            \o title_id_prefix_raw(entry) \o <<"-">> \o title_id_gameid_raw(entry)
            \o <<" ", "(">> \o title_id_gameid_string(entry) \o <<")">>
            \o title_human_name(db, entry)
    ELSE FmtDec(num) \o <<":", " ">>
            \o title_id_prefix_raw(entry) \o <<"-">> \o title_id_gameid_raw(entry)
            \o <<" ", "(">> \o title_id_gameid_string(entry) \o <<")">>
            \o title_human_name(db, entry)

\* one printed line: the values of the loop body's bindings and the text
Line(entry, pretty_prefix, db, num) ==
    [ install_num            |-> num,
      title_id_prefix        |-> title_id_prefix(entry, pretty_prefix),
      title_id_prefix_raw    |-> title_id_prefix_raw(entry),
      title_id_gameid_string |-> title_id_gameid_string(entry),
      title_id_gameid_raw    |-> title_id_gameid_raw(entry),
      title_human_name       |-> title_human_name(db, entry),
      text                   |-> println(entry, pretty_prefix, db, num) ]

-----------------------------------------------------------------------------
(* The inputs of a run *)

\* u16::to_be_bytes
U16ToBeBytes(w) == <<w \div U8Mod, w % U8Mod>>

\* the 12 bytes of a record: 8 bytes of title id, 2 reserved bytes, 2 bytes of uid
RecordBytes(title_id, reserved, uid) ==
    U16ToBeBytes(title_id[1]) \o U16ToBeBytes(title_id[2])
      \o U16ToBeBytes(title_id[3]) \o U16ToBeBytes(title_id[4])
      \o U16ToBeBytes(reserved) \o U16ToBeBytes(uid)

\* high halves of title ids: the ten known prefixes and three unknown ones
PrefixValues ==
    { <<0, 1>>, <<0, 7>>, <<1, 0>>, <<1, 1>>, <<1, 2>>, <<7, 2>>, <<1, 4>>,
      <<1, 5>>, <<1, 8>>, <<7, 8>>, <<0, 0>>, <<1, 3>>, <<65535, 65535>> }

\* low halves of title ids: 2, 254, 255, "ABCD", the bytes 31 32 127 128,
\* and 0xFFFFFFFF
GameIdValues ==
    { <<0, 2>>, <<0, 254>>, <<0, 255>>, <<16706, 17220>>, <<7968, 32640>>,
      <<65535, 65535>> }

\* install slots around the offset 4095 and at the ends of u16
UidValues == { 0, 4094, 4095, 4096, 65535 }

\* values of the two reserved bytes
ReservedValues == { 0, 43981 }

\* the record 00 00 00 01 00 00 00 02 00 00 10 00 and the records that
\* differ from it in one field
RecordSet ==
    { RecordBytes(<<p[1], p[2], 0, 2>>, 0, 4096) : p \in PrefixValues }
      \cup { RecordBytes(<<0, 1, g[1], g[2]>>, 0, 4096) : g \in GameIdValues }
      \cup { RecordBytes(<<0, 1, 0, 2>>, 0, u) : u \in UidValues }
      \cup { RecordBytes(<<0, 1, 0, 2>>, r, 4096) : r \in ReservedValues }

\* the files of at most n bytes: whole records followed by a partial record
RECURSIVE Buffers(_)
Buffers(n) ==
    { SubSeq(r, 1, t) : r \in { RecordBytes(<<0, 1, 0, 2>>, 0, 4096) },
                        t \in 0..(IF n < ChunkSize - 1 THEN n ELSE ChunkSize - 1) }
      \cup (IF n < ChunkSize THEN {}
            ELSE { r \o b : r \in RecordSet, b \in Buffers(n - ChunkSize) })

UidFiles ==
    { [ status |-> "NotFound", bytes |-> <<>> ],
      [ status |-> "IoError", bytes |-> <<>> ] }
      \cup { [ status |-> "Ok", bytes |-> b ] : b \in Buffers(MaxBufLen) }

\* lines of a title database: "ABCD = Test Title", ".... = A = B", "ABCD", ""
TitleDbLines ==
    { <<"A", "B", "C", "D", " ", "=", " ", "T", "e", "s", "t", " ", "T", "i", "t", "l", "e">>,
      <<".", ".", ".", ".", " ", "=", " ", "A", " ", "=", " ", "B">>,
      <<"A", "B", "C", "D">>,
      <<>> }

\* the files of at most n lines, no line twice
RECURSIVE LineSeqs(_)
LineSeqs(n) ==
    IF n = 0 THEN { <<>> }
    ELSE LET shorter == LineSeqs(n - 1) IN
         shorter \cup UNION { { Append(s, l) : l \in { x \in TitleDbLines :
                                                            \A k \in 1..Len(s) : s[k] # x } }
                               : s \in shorter }

TitleDbPaths ==
    { [ some |-> FALSE, status |-> "None", lines |-> <<>> ],
      [ some |-> TRUE, status |-> "IoError", lines |-> <<>> ] }
      \cup { [ some |-> TRUE, status |-> "Ok", lines |-> ls ] : ls \in LineSeqs(MaxDbLines) }

-----------------------------------------------------------------------------
(* The run *)

NoneDb == [ some |-> FALSE, map |-> <<>> ]

Init ==
    /\ pc = "main"
    /\ uid_file \in UidFiles
    /\ decode_prefix \in BOOLEAN
    /\ title_db_path \in TitleDbPaths
    /\ overflow_checks \in BOOLEAN
    /\ entries = [ some |-> FALSE, v |-> <<>> ]
    /\ title_db = NoneDb
    /\ titledb_reads = 0
    /\ idx = 0
    /\ stdout = <<>>
    /\ stderr = <<>>

\* main: let entries = match get_entries_from_file(&args.uid_file) { ... }
GetEntries ==
    /\ pc = "main"
    /\ LET r == get_entries_from_file(uid_file) IN
         /\ stderr' = stderr \o r.err
         /\ entries' = [ some |-> r.outcome = "Some", v |-> r.v ]
         /\ pc' = CASE r.outcome = "Some" -> "print_entries"
                    [] r.outcome = "None" -> "exit"
                    [] OTHER -> "panicked"
    /\ UNCHANGED <<uid_file, decode_prefix, title_db_path, overflow_checks,
                   title_db, titledb_reads, idx, stdout>>

\* print_entries: the title database is read before the loop
LoadTitleDb ==
    /\ pc = "print_entries"
    /\ IF title_db_path.some
       THEN LET r == read_titledb(title_db_path) IN
              /\ titledb_reads' = titledb_reads + 1
              /\ IF r.ok
                 THEN /\ title_db' = [ some |-> TRUE, map |-> r.map ]
                      /\ stderr' = stderr
                 ELSE /\ title_db' = NoneDb
                      /\ stderr' = Append(stderr, "error while reading title database: " \o r.err)
       ELSE /\ title_db' = NoneDb
            /\ UNCHANGED <<titledb_reads, stderr>>
    /\ pc' = "for_entry"
    /\ UNCHANGED <<uid_file, decode_prefix, title_db_path, overflow_checks,
                   entries, idx, stdout>>

\* print_entries: one iteration of for entry in entries
PrintEntry ==
    /\ pc = "for_entry"
    /\ idx < Len(entries.v)
    /\ LET entry == entries.v[idx + 1]
           num == install_num(entry, overflow_checks)
       IN  IF num.panic
           THEN /\ pc' = "panicked"
                /\ stderr' = Append(stderr, "panicked: attempt to subtract with overflow")
                /\ UNCHANGED <<idx, stdout>>
           ELSE /\ stdout' = Append(stdout, Line(entry, decode_prefix, title_db, num.v))
                /\ idx' = idx + 1
                /\ UNCHANGED <<pc, stderr>>
    /\ UNCHANGED <<uid_file, decode_prefix, title_db_path, overflow_checks,
                   entries, title_db, titledb_reads>>

\* print_entries and main return
Return ==
    /\ pc = "for_entry"
    /\ idx = Len(entries.v)
    /\ pc' = "exit"
    /\ UNCHANGED <<uid_file, decode_prefix, title_db_path, overflow_checks,
                   entries, title_db, titledb_reads, idx, stdout, stderr>>

Next == GetEntries \/ LoadTitleDb \/ PrintEntry \/ Return

Spec == Init /\ [][Next]_vars

-----------------------------------------------------------------------------
(* Properties *)

\* the uid file was read and its length is a multiple of 12
WellFormedFile == uid_file.status = "Ok" /\ Len(uid_file.bytes) % 12 = 0

\* the uid file was read and its length is not a multiple of 12
MalformedLength == uid_file.status = "Ok" /\ Len(uid_file.bytes) % 12 # 0

\* the big-endian value of the bytes b[from..from+1]
BigEndian16(b, from) == b[from] * 256 + b[from + 1]

\* C1: a buffer whose length is a multiple of 12 decodes to len/12 records in
\* buffer order; record i has title_id equal to the big-endian value of bytes
\* 12i..12i+7 and install_slot equal to the big-endian value of bytes
\* 12i+10..12i+11, whatever the reserved bytes 12i+8..12i+9 are; encoding a
\* decoded pair with any reserved bytes and decoding it gives the pair back.
C1_DecodeBigEndian ==
    (WellFormedFile /\ pc # "main") =>
        /\ entries.some
        /\ Len(entries.v) = Len(uid_file.bytes) \div 12
        /\ \A i \in 1..Len(entries.v) :
             LET o == 12 * (i - 1)
                 b == uid_file.bytes
             IN  /\ entries.v[i].title_id =
                        << BigEndian16(b, o + 1), BigEndian16(b, o + 3),
                           BigEndian16(b, o + 5), BigEndian16(b, o + 7) >>
                 /\ entries.v[i].uid = BigEndian16(b, o + 11)
                 /\ \A r \in ReservedValues :
                        EntryFrom(RecordBytes(entries.v[i].title_id, r, entries.v[i].uid))
                            = entries.v[i]

\* two different records were decoded in order, the first with non-zero
\* reserved bytes
C1_Witness ==
    /\ WellFormedFile
    /\ entries.some
    /\ Len(entries.v) = 2
    /\ entries.v[1] # entries.v[2]
    /\ BigEndian16(uid_file.bytes, 9) # 0
    /\ entries.v[2].uid = 65535

\* C2: a buffer whose length is not a multiple of 12 makes decoding fail with
\* an error that is returned to the caller (no panic) and produces no records.
C2_MalformedLengthIsAnErrorValue ==
    (MalformedLength /\ pc # "main") =>
        /\ pc = "exit"
        /\ ~entries.some
        /\ stderr # <<>>

\* C3: the displayed install index is install_slot - 4095 in signed
\* arithmetic, negative for the slots 0..4094, and printing a record never
\* fails.
C3_InstallIndexIsSigned ==
    /\ \A i \in 1..Len(stdout) : stdout[i].install_num = entries.v[i].uid - 4095
    /\ ~(pc = "panicked" /\ entries.some)

\* C8: no record line is printed unless the uid file was read and decoded as
\* a whole; when the file is missing, unreadable or of a malformed length the
\* run ends with no line printed; the title database is not read before
\* decoding has finished.
C8_NoOutputWithoutDecode ==
    /\ stdout # <<>> => (WellFormedFile /\ entries.some)
    /\ titledb_reads > 0 => (WellFormedFile /\ entries.some)
    /\ (~WellFormedFile /\ pc # "main") =>
           /\ pc \in {"exit", "panicked"}
           /\ stdout = <<>>
           /\ titledb_reads = 0
           /\ ~entries.some

\* a file of one whole record and one more byte ended the run with nothing
\* printed and the title database unread
C8_Witness ==
    /\ MalformedLength
    /\ Len(uid_file.bytes) > 12
    /\ title_db_path.some
    /\ pc = "panicked"
    /\ stdout = <<>>
    /\ titledb_reads = 0

\* the low 32 bits of an entry's title id, as its two limbs
Low32(entry) == <<entry.title_id[3], entry.title_id[4]>>

\* the high 32 bits of an entry's title id, as its two limbs
High32(entry) == <<entry.title_id[1], entry.title_id[2]>>

\* C4: the human-name suffix of every record, printed or still to print with
\* the lookup at hand, is " - " and the name
\* when a lookup is supplied and has an entry for the code string (also when
\* the low 32 bits are below 255); else empty when no lookup is supplied;
\* else " - IOS " and the low 32 bits in decimal when they are below 255;
\* else " - ????".  With the line "ABCD = Test Title" loaded, a record whose
\* code string is "ABCD" gets " - Test Title".
C4_HumanNamePriority ==
    \A i \in 1..Len(entries.v) :
        LET code == title_id_gameid_string(entries.v[i])
            low  == Low32(entries.v[i])
            name == IF i <= Len(stdout) THEN stdout[i].title_human_name
                    ELSE title_human_name(title_db, entries.v[i])
        IN  /\ name =
                 IF title_db.some /\ code \in DOMAIN title_db.map
                 THEN <<" ", "-", " ">> \o title_db.map[code]
                 ELSE IF ~title_db.some THEN <<>>
                 ELSE IF low[1] = 0 /\ low[2] < 255
                 THEN <<" ", "-", " ", "I", "O", "S", " ">> \o FmtDec(low[2])
                 ELSE <<" ", "-", " ", "?", "?", "?", "?">>
            /\ ( /\ title_db.some
                 /\ title_db_path.lines =
                      << <<"A", "B", "C", "D", " ", "=", " ", "T", "e", "s", "t", " ", "T", "i", "t", "l", "e">> >>
                 /\ code = <<"A", "B", "C", "D">> )
               => name = <<" ", "-", " ", "T", "e", "s", "t", " ", "T", "i", "t", "l", "e">>

\* a record with low 32 bits 2 was printed with the name the lookup has for
\* its code string "....", and a second one with " - ????"
C4_Witness ==
    /\ title_db.some
    /\ Len(stdout) = 2
    /\ Low32(entries.v[1]) = <<0, 2>>
    /\ stdout[1].title_id_gameid_string \in DOMAIN title_db.map
    /\ stdout[1].title_human_name = <<" ", "-", " ", "A">>
    /\ stdout[2].title_human_name = <<" ", "-", " ", "?", "?", "?", "?">>

\* the uid file holds exactly the bytes 00 00 00 01 00 00 00 02 00 00 10 00,
\* pretty labels are requested and the record has been printed
Scenario ==
    /\ uid_file.status = "Ok"
    /\ uid_file.bytes = <<0, 0, 0, 1, 0, 0, 0, 2, 0, 0, 16, 0>>
    /\ decode_prefix
    /\ Len(stdout) = 1

\* the fields of the scenario's line other than the human name
ScenarioFields ==
    /\ stdout[1].install_num = 1
    /\ stdout[1].title_id_prefix =
         <<"S", "Y", "S", "T", "E", "M", " ", "E", "S", "S", "E", "N", "T", "I", "A", "L">>
    /\ stdout[1].title_id_prefix_raw = <<"0", "0", "0", "0", "0", "0", "0", "1">>
    /\ stdout[1].title_id_gameid_raw = <<"0", "0", "0", "0", "0", "0", "0", "2">>
    /\ stdout[1].title_id_gameid_string = <<".", ".", ".", ".">>

\* C5 as stated: the scenario's record, formatted with pretty labels and no
\* lookup supplied, has install index 1, label "SYSTEM ESSENTIAL", category
\* hex 00000001, code hex 00000002, code string "...." and the suffix
\* " - IOS 2".
C5_ScenarioSuffixIos ==
    (Scenario /\ ~title_db_path.some) =>
        /\ ScenarioFields
        /\ stdout[1].title_human_name = <<" ", "-", " ", "I", "O", "S", " ", "2">>

\* C5 as amended: the scenario's record, formatted with pretty labels, has
\* install index 1, label "SYSTEM ESSENTIAL", category hex 00000001, code hex
\* 00000002 and code string "...."; with no lookup supplied its suffix is
\* empty and the line is "1: SYSTEM ESSENTIAL   00000001-00000002 (....)";
\* the suffix is " - IOS 2" when a lookup is supplied that has no entry for
\* "....".
C5_ScenarioSuffixEmpty ==
    Scenario =>
        /\ ScenarioFields
        /\ ~title_db.some =>
             /\ stdout[1].title_human_name = <<>>
             /\ stdout[1].text =
                  <<"1", ":", " ", "S", "Y", "S", "T", "E", "M", " ", "E", "S", "S",
                    "E", "N", "T", "I", "A", "L", " ", " ", " ", "0", "0", "0", "0",
                    "0", "0", "0", "1", "-", "0", "0", "0", "0", "0", "0", "0", "2",
                    " ", "(", ".", ".", ".", ".", ")">>
        /\ (title_db.some /\ <<".", ".", ".", ".">> \notin DOMAIN title_db.map) =>
             stdout[1].title_human_name = <<" ", "-", " ", "I", "O", "S", " ", "2">>

\* the scenario's record was printed with no title database given
C5_Witness ==
    /\ Scenario
    /\ ~title_db_path.some
    /\ pc = "exit"

\* the line has no occurrence of " = "
LacksSeparator(line) ==
    ~ \E i \in 1..(Len(line) - 2) : SubSeq(line, i, i + 2) = <<" ", "=", " ">>

\* the title database is given and cannot be read, or one of its lines has
\* no separator
DatabaseIsMalformed ==
    /\ title_db_path.some
    /\ \/ title_db_path.status # "Ok"
       \/ \E k \in 1..Len(title_db_path.lines) : LacksSeparator(title_db_path.lines[k])

\* C6: when a line of the name database lacks the separator, or the database
\* cannot be read, the load reports an error on stderr, the run still prints
\* every decoded record, and every record is formatted as if no database had
\* been supplied, with an empty suffix.
C6_MalformedDatabaseDegrades ==
    (DatabaseIsMalformed /\ entries.some) =>
        /\ pc # "print_entries" =>
             \E k \in 1..Len(stderr) :
                 stderr[k] \in { "error while reading title database: File format error",
                                 "error while reading title database: io error" }
        /\ pc \in {"exit", "panicked"} => Len(stdout) = Len(entries.v)
        /\ \A i \in 1..Len(stdout) :
             /\ stdout[i].title_human_name = <<>>
             /\ stdout[i] = Line(entries.v[i], decode_prefix, NoneDb, stdout[i].install_num)

\* the position of the first occurrence of " = " in a line that has one
FirstSeparator(line) ==
    CHOOSE i \in 1..(Len(line) - 2) :
        /\ SubSeq(line, i, i + 2) = <<" ", "=", " ">>
        /\ \A j \in 1..(i - 1) : SubSeq(line, j, j + 2) # <<" ", "=", " ">>

\* the title database has been read
DatabaseWasRead == entries.some /\ pc \in {"for_entry", "exit", "panicked"}

\* C7: when the name database loads, every non-empty line is split at the
\* first " = ": the key is the text before it, the name all of the text after
\* it, and a lookup of the key gives the name; empty lines do not make the
\* load fail.
C7_SplitAtFirstSeparator ==
    /\ title_db.some =>
         \A k \in 1..Len(title_db_path.lines) :
             LET line == title_db_path.lines[k] IN
             line # <<>> =>
                 LET i    == FirstSeparator(line)
                     key  == SubSeq(line, 1, i - 1)
                     name == SubSeq(line, i + 3, Len(line))
                 IN  key \in DOMAIN title_db.map /\ title_db.map[key] = name
    /\ ( /\ DatabaseWasRead
         /\ title_db_path.status = "Ok"
         /\ \A k \in 1..Len(title_db_path.lines) :
                title_db_path.lines[k] # <<>> => ~LacksSeparator(title_db_path.lines[k]) )
       => title_db.some

\* the ten known category codes and their labels
KnownLabels ==
    { << <<0, 1>>, STR_SYSTEM_ESSENTIAL >>,    << <<0, 7>>, STR_VWII_ESSENTIAL >>,
      << <<1, 0>>, STR_DISC_BASED_GAME >>,     << <<1, 1>>, STR_DOWNLOADED_CHANNEL >>,
      << <<1, 2>>, STR_SYSTEM_CHANNEL >>,      << <<7, 2>>, STR_VWII_SYSTEM_CHANNEL >>,
      << <<1, 4>>, STR_GAME_CHANNEL >>,        << <<1, 5>>, STR_GAME_DLC >>,
      << <<1, 8>>, STR_HIDDEN_CHANNEL >>,      << <<7, 8>>, STR_VWII_HIDDEN >> }

\* the label the table gives a category code
ExpectedLabel(p) ==
    IF \E kl \in KnownLabels : kl[1] = p
    THEN (CHOOSE kl \in KnownLabels : kl[1] = p)[2]
    ELSE <<"E", "r", "r", "o", "r">>

\* the part of a printed line after the install index and ": " and the label
LineTail(line) ==
    line.title_id_prefix_raw \o <<"-">> \o line.title_id_gameid_raw
        \o <<" ", "(">> \o line.title_id_gameid_string \o <<")">> \o line.title_human_name

\* C9: the label lookup is total: each of the ten known codes maps to its
\* label and every other value to "Error"; with pretty requested the line
\* shows the label filled with spaces to 19 characters; without it no label
\* is computed and the line holds no label text and no padding.
C9_LabelLookupTotal ==
    /\ \A i \in 1..Len(entries.v) :
           PrefixLabel(High32(entries.v[i])) = ExpectedLabel(High32(entries.v[i]))
    /\ \A i \in 1..Len(stdout) :
           LET line  == stdout[i]
               label == ExpectedLabel(High32(entries.v[i]))
           IN  IF decode_prefix
               THEN /\ line.title_id_prefix = label
                    /\ line.text = FmtDec(line.install_num) \o <<":", " ">> \o label
                                     \o [k \in 1..(19 - Len(label)) |-> " "] \o LineTail(line)
               ELSE /\ line.title_id_prefix = <<>>
                    /\ line.text = FmtDec(line.install_num) \o <<":", " ">> \o LineTail(line)

\* with pretty requested, a record of category 0x00070002 and a record of an
\* unknown category were printed
C9_Witness ==
    /\ decode_prefix
    /\ Len(stdout) = 2
    /\ High32(entries.v[1]) = <<7, 2>>
    /\ stdout[1].title_id_prefix = STR_VWII_SYSTEM_CHANNEL
    /\ stdout[2].title_id_prefix = <<"E", "r", "r", "o", "r">>

\* C10: the code string has exactly 4 characters, character k being the
\* ASCII character of the k-th byte of the low 32 bits in big-endian order
\* when that byte is in [32,128) and '.' otherwise; records with equal low 32
\* bits get the same code string whatever their high 32 bits and slot.
C10_CodeString ==
    /\ \A i \in 1..Len(entries.v) :
           LET o == 12 * (i - 1)
               b == uid_file.bytes
               s == title_id_gameid_string(entries.v[i])
           IN  /\ Len(s) = 4
               /\ \A k \in 1..4 :
                      s[k] = IF b[o + 4 + k] >= 32 /\ b[o + 4 + k] < 128
                             THEN Ascii[b[o + 4 + k] - 31]
                             ELSE "."
               /\ SubSeq(b, o + 5, o + 8) = <<65, 66, 67, 68>> => s = <<"A", "B", "C", "D">>
               /\ SubSeq(b, o + 5, o + 8) = <<31, 32, 127, 128>> => s = <<".", " ", "DEL", ".">>
    /\ \A i, j \in 1..Len(entries.v) :
           Low32(entries.v[i]) = Low32(entries.v[j]) =>
               title_id_gameid_string(entries.v[i]) = title_id_gameid_string(entries.v[j])
    /\ \A i \in 1..Len(stdout) :
           stdout[i].title_id_gameid_string = title_id_gameid_string(entries.v[i])

\* a record with the low bytes 31 32 127 128 and a record with the low bytes
\* of "ABCD" were printed
C10_Witness ==
    /\ Len(stdout) = 2
    /\ SubSeq(uid_file.bytes, 5, 8) = <<31, 32, 127, 128>>
    /\ stdout[1].title_id_gameid_string = <<".", " ", "DEL", ".">>
    /\ stdout[2].title_id_gameid_string = <<"A", "B", "C", "D">>

====
